---- MODULE Spec2Model ----
(***************************************************************************)
(* git-hubsync: the branch reconciliation engine of src/src/hubsync.rs     *)
(* over the repository facade of src/src/git.rs.                           *)
(*                                                                         *)
(* The repository is a commit graph, the local refs (refs/heads), the      *)
(* remote-tracking refs (refs/remotes, as the fetches of the run leave     *)
(* them), HEAD, the working tree and the git configuration.  git2 handles  *)
(* (Branch, Reference) are snapshots: a handle keeps the name and the      *)
(* target it had when it was looked up.                                    *)
(***************************************************************************)
EXTENDS Integers, Sequences, FiniteSets, TLC

\* Bound of the model: the commits of the graph are 1..MaxCommit.
MaxCommit == 3

Commits == 1..MaxCommit

\* The local branch names of the model ("main" and "master" are the names
\* hubsync() falls back to) and the remote names.
Names == {"main", "master", "topic"}

Remotes == {"origin", "fork"}

\* Option<T>: None, or Some(x).
None == <<>>

Some(x) == <<x>>

IsSome(o) == o # <<>>

Unwrap(o) == o[1]

\* The commit graph: commit 1 is the root, commit 4 is a merge of 2 and 3,
\* every other commit c has the single parent c \div 2.
Parents(c) ==
    IF c = 1 THEN {}
    ELSE IF c = 4 THEN {2, 3}
    ELSE {c \div 2}

RECURSIVE Reach(_)
\* The commits reachable from c through parent links, c included.
Reach(c) == {c} \cup UNION {Reach(p) : p \in Parents(c)}

ReachAll(S) == UNION {Reach(c) : c \in S}

\* git2 Repository::graph_descendant_of(commit, ancestor): libgit2 answers
\* 0 when the two ids are equal (a commit is not a descendant of itself),
\* otherwise whether ancestor is reachable from commit.
graph_descendant_of(commit, ancestor) ==
    /\ commit # ancestor
    /\ ancestor \in Reach(commit)

VARIABLES
    local,                  \* refs/heads: [Names -> None or Some(commit)]
    tracking,               \* refs/remotes: [Remotes -> [Names -> None or Some(commit)]]
    head,                   \* HEAD: Some(name) symbolic ref to refs/heads/name, None = detached
    worktree,               \* the commit whose tree is checked out
    cfg,                    \* git configuration (remotes, branch.*.remote, pushremote, ...)
    pc,                     \* position of hubsync(): "start", "loop", "cad", "done", "error"
    run,                    \* "first" or "second" invocation of hubsync()
    current_branch,         \* hubsync's current_branch handle (Option)
    odefault_branch,        \* hubsync's odefault_branch (Option of handle)
    default_remote,         \* hubsync's default_remote (Option of remote name)
    alternate_remote,       \* hubsync's alternate_remote (Option of remote name)
    remote_default_branch,  \* hubsync's remote_default_branch handle (Option)
    branches,               \* the handles returned by git.local_branches()
    visited,                \* the names of the branches the for loop has been through
    cad_branch,             \* the branch a CheckoutAndDelete arm is in the middle of
    action,                 \* the last classification: input and BranchAction
    trail                   \* history: what the run has done so far

vars == << local, tracking, head, worktree, cfg, pc, run, current_branch,
           odefault_branch, default_remote, alternate_remote,
           remote_default_branch, branches, visited, cad_branch, action,
           trail >>

repo_vars == << local, tracking, head, worktree, cfg >>

hub_vars == << current_branch, odefault_branch, default_remote,
               alternate_remote, remote_default_branch, branches, visited,
               cad_branch >>

----------------------------------------------------------------------------
\* Handles.

\* A local Branch handle: the name and the target read at lookup time.
Handle(n, c) == [name |-> n, tip |-> c]

\* A remote-tracking Branch handle "<remote>/<name>".
RHandle(r, n, c) == [remote |-> r, name |-> n, tip |-> c]

\* Repository::find_branch(name, BranchType::Local) on refs.
find_local(refs, n) ==
    IF IsSome(refs[n]) THEN Some(Handle(n, Unwrap(refs[n]))) ELSE None

\* Repository::find_branch("<r>/<n>", BranchType::Remote).
find_remote_branch(r, n) ==
    IF IsSome(tracking[r][n])
    THEN Some(RHandle(r, n, Unwrap(tracking[r][n])))
    ELSE None

\* git::is_branch_same: two handles name the same branch.
is_branch_same(b1, b2) == b1.name = b2.name

----------------------------------------------------------------------------
\* Results: Ok(v), or Err with the git2 error class and code.

Ok(v) == [ok |-> TRUE, val |-> v]

Err(class, code) == [ok |-> FALSE, class |-> class, code |-> code]

\* A configured name that is not a valid remote name (libgit2 refuses it and
\* every ref name built from it with InvalidSpec).
InvalidRemoteName == "a..b"

valid_remote_name(name) == name # InvalidRemoteName

\* Repository::find_remote(name) under configuration c.
find_remote(c, name) ==
    IF ~valid_remote_name(name) THEN Err("Config", "InvalidSpec")
    ELSE IF name \in c.remotes THEN Ok(name)
    ELSE Err("Config", "NotFound")

\* Git::remote with branch.<name>.pushremote read before the upstream remote.
remote_pushremote_first(c, branch) ==
    IF IsSome(c.pushremote[branch.name])
    THEN find_remote(c, Unwrap(c.pushremote[branch.name]))
    ELSE IF IsSome(c.branch_remote[branch.name])
    THEN find_remote(c, Unwrap(c.branch_remote[branch.name]))
    ELSE IF IsSome(c.pushdefault)
    THEN find_remote(c, Unwrap(c.pushdefault))
    ELSE Err("Config", "NotFound")

\* Git::remote(branch): the upstream remote (branch.<name>.remote), else
\* branch.<name>.pushremote, else remote.pushdefault; then find_remote.
remote(c, branch) ==
    IF IsSome(c.branch_remote[branch.name])
    THEN find_remote(c, Unwrap(c.branch_remote[branch.name]))
    ELSE IF IsSome(c.pushremote[branch.name])
    THEN find_remote(c, Unwrap(c.pushremote[branch.name]))
    ELSE IF IsSome(c.pushdefault)
    THEN find_remote(c, Unwrap(c.pushdefault))
    ELSE Err("Config", "NotFound")

\* git2 Branch::upstream(): the remote-tracking branch named by
\* branch.<name>.remote and branch.<name>.merge (refs/heads/<name>), which
\* must exist.
branch_upstream(c, branch) ==
    LET r == c.branch_remote[branch.name] IN
    IF /\ IsSome(r)
       /\ Unwrap(r) \in c.remotes
       /\ IsSome(find_remote_branch(Unwrap(r), branch.name))
    THEN Ok(Unwrap(find_remote_branch(Unwrap(r), branch.name)))
    ELSE Err("Reference", "NotFound")

\* Git::upstream(branch): the configured upstream when it resolves, else the
\* remote-tracking branch "<branch.<name>.pushremote>/<name>".
upstream(c, branch) ==
    LET configured == branch_upstream(c, branch)
        remote_name == c.pushremote[branch.name]
    IN  IF configured.ok THEN configured
        ELSE IF ~IsSome(remote_name) THEN Err("Config", "NotFound")
        ELSE IF ~valid_remote_name(Unwrap(remote_name))
        THEN Err("Reference", "InvalidSpec")
        ELSE IF IsSome(find_remote_branch(Unwrap(remote_name), branch.name))
        THEN Ok(Unwrap(find_remote_branch(Unwrap(remote_name), branch.name)))
        ELSE Err("Reference", "NotFound")

----------------------------------------------------------------------------
\* Range.

\* Git::new_range(local, upstream): both handles peeled to their commits.
new_range(lcl, ups) == [beg |-> lcl.tip, end |-> ups.tip]

beg_oid(range) == range.beg

is_identical(range) == range.beg = range.end

\* is_ancestor with the arguments of graph_descendant_of exchanged.
is_ancestor_reversed(range) == graph_descendant_of(range.beg, range.end)

is_ancestor(range) == graph_descendant_of(range.end, range.beg)

----------------------------------------------------------------------------
\* BranchAction and the classifier.

UpToDate == [tag |-> "UpToDate"]

Merge(u, oid) == [tag |-> "Merge", upstream |-> u, oid |-> oid]

UpdateRef(u, oid) == [tag |-> "UpdateRef", upstream |-> u, oid |-> oid]

Unpushed == [tag |-> "Unpushed"]

CheckoutAndDelete == [tag |-> "CheckoutAndDelete"]

NoDefault == [tag |-> "NoDefault"]

Delete == [tag |-> "Delete"]

Unmerged == [tag |-> "Unmerged"]

\* linked_action without the identity test that comes first.
linked_action_no_identity(branch, cur, ups) ==
    LET range == new_range(branch, ups) IN
    IF is_ancestor(range)
    THEN IF is_branch_same(branch, cur)
         THEN Merge(ups, beg_oid(range))
         ELSE UpdateRef(ups, beg_oid(range))
    ELSE Unpushed

\* linked_action with the Merge and UpdateRef arms exchanged.
linked_action_swapped(branch, cur, ups) ==
    LET range == new_range(branch, ups) IN
    IF is_identical(range) THEN UpToDate
    ELSE IF is_ancestor(range)
    THEN IF is_branch_same(branch, cur)
         THEN UpdateRef(ups, beg_oid(range))
         ELSE Merge(ups, beg_oid(range))
    ELSE Unpushed

\* The arm of find_branch_action taken when the branch has an upstream.
linked_action(branch, cur, ups) ==
    LET range == new_range(branch, ups) IN
    IF is_identical(range) THEN UpToDate
    ELSE IF is_ancestor(range)
    THEN IF is_branch_same(branch, cur)
         THEN Merge(ups, beg_oid(range))
         ELSE UpdateRef(ups, beg_oid(range))
    ELSE Unpushed

\* linkless_action that takes every branch without a link for merged.
linkless_action_no_merge_test(branch, cur, rdb, odefault) ==
    IF is_branch_same(branch, cur)
    THEN IF IsSome(odefault) THEN CheckoutAndDelete ELSE NoDefault
    ELSE Delete

\* linkless_action that deletes a merged current branch when there is no
\* candidate to check out.
linkless_action_no_candidate_test(branch, cur, rdb, odefault) ==
    LET range == new_range(branch, rdb) IN
    IF is_ancestor(range)
    THEN IF is_branch_same(branch, cur)
         THEN CheckoutAndDelete
         ELSE Delete
    ELSE Unmerged

\* The arm of find_branch_action taken when the upstream lookup failed with
\* reference-not-found or config-key-not-found.
linkless_action(branch, cur, rdb, odefault) ==
    LET range == new_range(branch, rdb) IN
    IF is_ancestor(range)
    THEN IF is_branch_same(branch, cur)
         THEN IF IsSome(odefault) THEN CheckoutAndDelete ELSE NoDefault
         ELSE Delete
    ELSE Unmerged

\* find_branch_action that takes every failure of the upstream lookup for a
\* missing link.
find_branch_action_any_error_no_link(c, branch, cur, rdb, odefault) ==
    LET e == upstream(c, branch) IN
    IF e.ok
    THEN Ok(linked_action(branch, cur, e.val))
    ELSE Ok(linkless_action(branch, cur, rdb, odefault))

\* find_branch_action(git, branch, current_branch, remote_default_branch,
\* odefault_branch) under configuration c: Ok(BranchAction) or the error.
find_branch_action(c, branch, cur, rdb, odefault) ==
    LET e == upstream(c, branch) IN
    IF e.ok
    THEN Ok(linked_action(branch, cur, e.val))
    ELSE IF \/ e.class = "Reference" /\ e.code = "NotFound"
            \/ e.class = "Config" /\ e.code = "NotFound"
    THEN Ok(linkless_action(branch, cur, rdb, odefault))
    ELSE e

----------------------------------------------------------------------------
\* The state the branch loop of hubsync() reads and writes, as a record s:
\* local, head, worktree, cfg (the repository) and current_branch,
\* odefault_branch (the orchestrator), the last classification (action),
\* the history (trail) and failed (a `?` returned an error).

\* A failure that puts the local refs back to what the loop started from.
fail_with_rollback(s) ==
    [s EXCEPT !.failed = TRUE,
              !.local = IF IsSome(s.trail.entry)
                        THEN Unwrap(s.trail.entry).local
                        ELSE s.local]

\* The `?` of hubsync() on an Err: the function returns, nothing is undone.
Fail(s) == [s EXCEPT !.failed = TRUE]

\* Repository::checkout_tree(commit): the working tree becomes commit's tree.
checkout_tree(s, oid) ==
    [s EXCEPT !.worktree = oid,
              !.trail.checkouts = @ \cup {oid}]

\* Repository::set_head("refs/heads/<name>"): HEAD becomes a symbolic ref to
\* the branch, whether or not the branch exists.
set_head(s, name) == [s EXCEPT !.head = Some(name)]

\* Git::checkout(branch): checkout_tree of the handle's commit, then set_head.
checkout(s, branch) == set_head(checkout_tree(s, branch.tip), branch.name)

\* Reference::set_target through the handle: libgit2 writes the ref only if
\* it still has the value the handle was read with.
set_target(s, branch, oid) ==
    IF s.local[branch.name] = Some(branch.tip)
    THEN [s EXCEPT !.local[branch.name] = Some(oid),
                   !.trail.moved = @ \cup {branch.name}]
    ELSE Fail(s)

\* Git::update_ref(branch, remote_branch): the ref is set to the remote
\* branch's commit; the returned handle is Handle(branch.name, remote tip).
update_ref(s, branch, remote_branch) == set_target(s, branch, remote_branch.tip)

\* Git::fastforward(branch, upstream): checkout_tree(upstream), update_ref.
fastforward(s, branch, ups) ==
    update_ref(checkout_tree(s, ups.tip), branch, ups)

\* git2 Branch::is_head: HEAD resolves to this branch.
is_head(s, branch) ==
    /\ s.head = Some(branch.name)
    /\ IsSome(s.local[branch.name])

\* action_delete(branch): Branch::delete refuses the branch HEAD points to
\* and a ref that no longer has the handle's value; it removes the ref and
\* the branch.<name> section of the configuration.
action_delete(s, branch) ==
    IF is_head(s, branch) \/ s.local[branch.name] # Some(branch.tip)
    THEN Fail(s)
    ELSE [s EXCEPT !.local[branch.name] = None,
                   !.cfg.branch_remote[branch.name] = None,
                   !.cfg.pushremote[branch.name] = None,
                   !.trail.deleted = @ \cup {branch.name}]

\* The loop state after a successful update_ref in the UpdateRef arm.
Updated(s, branch, ups) ==
    [update_ref(s, branch, ups) EXCEPT !.trail.updated = @ \cup {branch.name}]

\* The UpdateRef arm without the replacement of the stored candidate.
arm_update_ref_no_refresh(s, branch, ups) ==
    IF update_ref(s, branch, ups).failed THEN update_ref(s, branch, ups)
    ELSE Updated(s, branch, ups)

\* The UpdateRef arm: update_ref, and the stored default-branch candidate is
\* replaced by the updated handle when the branch is the candidate.
arm_update_ref(s, branch, ups) ==
    IF update_ref(s, branch, ups).failed THEN update_ref(s, branch, ups)
    ELSE IF IsSome(s.odefault_branch)
            /\ is_branch_same(branch, Unwrap(s.odefault_branch))
    THEN [Updated(s, branch, ups) EXCEPT
              !.odefault_branch = Some(Handle(branch.name, ups.tip))]
    ELSE Updated(s, branch, ups)

\* cad_checkout that leaves the candidate in odefault_branch.
cad_checkout_keep_candidate(s) ==
    IF IsSome(s.odefault_branch)
    THEN [checkout(s, Unwrap(s.odefault_branch))
             EXCEPT !.current_branch = s.odefault_branch,
                    !.trail.switched = @ \cup {Unwrap(s.odefault_branch)}]
    ELSE s

\* The first half of the CheckoutAndDelete arm: the candidate is taken out
\* of odefault_branch, checked out, and becomes current_branch.
cad_checkout(s) ==
    IF IsSome(s.odefault_branch)
    THEN [checkout([s EXCEPT !.odefault_branch = None], Unwrap(s.odefault_branch))
             EXCEPT !.current_branch = s.odefault_branch,
                    !.trail.switched = @ \cup {Unwrap(s.odefault_branch)}]
    ELSE [s EXCEPT !.odefault_branch = None]

\* The CheckoutAndDelete arm.
arm_checkout_and_delete(s, branch) ==
    LET switched == cad_checkout(s) IN
    IF switched.failed THEN switched
    ELSE action_delete(switched, branch)

\* The match with an Unmerged arm that deletes the branch.
execute_unmerged_deletes(s, branch, a) ==
    CASE a.tag = "UpToDate" -> s
      [] a.tag = "Merge" -> fastforward(s, branch, a.upstream)
      [] a.tag = "UpdateRef" -> arm_update_ref(s, branch, a.upstream)
      [] a.tag = "Unpushed" -> s
      [] a.tag = "Unmerged" -> action_delete(s, branch)
      [] a.tag = "CheckoutAndDelete" -> arm_checkout_and_delete(s, branch)
      [] a.tag = "Delete" -> action_delete(s, branch)
      [] a.tag = "NoDefault" -> s

\* The match with an UpdateRef arm that fast-forwards the working tree.
execute_update_ref_checks_out(s, branch, a) ==
    CASE a.tag = "UpToDate" -> s
      [] a.tag = "Merge" -> fastforward(s, branch, a.upstream)
      [] a.tag = "UpdateRef" -> fastforward(s, branch, a.upstream)
      [] a.tag = "Unpushed" -> s
      [] a.tag = "Unmerged" -> s
      [] a.tag = "CheckoutAndDelete" -> arm_checkout_and_delete(s, branch)
      [] a.tag = "Delete" -> action_delete(s, branch)
      [] a.tag = "NoDefault" -> s

\* The match of hubsync() on the BranchAction a.
execute(s, branch, a) ==
    CASE a.tag = "UpToDate" -> s
      [] a.tag = "Merge" -> fastforward(s, branch, a.upstream)
      [] a.tag = "UpdateRef" -> arm_update_ref(s, branch, a.upstream)
      [] a.tag = "Unpushed" -> s
      [] a.tag = "Unmerged" -> s
      [] a.tag = "CheckoutAndDelete" -> arm_checkout_and_delete(s, branch)
      [] a.tag = "Delete" -> action_delete(s, branch)
      [] a.tag = "NoDefault" -> s

\* The record of one classification: the inputs and the BranchAction.
Classified(c, branch, cur, rdb, odefault) ==
    [branch |-> branch, current |-> cur, rdb |-> rdb, odefault |-> odefault,
     link |-> upstream(c, branch),
     result |-> find_branch_action(c, branch, cur, rdb, odefault)]

\* The loop state s with the classification of branch recorded.
Recorded(s, branch) ==
    [s EXCEPT !.action = Some(Classified(s.cfg, branch, Unwrap(s.current_branch),
                                         Unwrap(remote_default_branch),
                                         s.odefault_branch)),
              !.trail.classified = @ \cup {branch.name}]

\* A remote filter that lets every branch through.
filtered_out_never(r) == FALSE

\* The remote filter of the loop: branch's remote r is neither the default
\* remote nor the alternate remote.
filtered_out(r) ==
    /\ Some(r) # default_remote
    /\ \/ ~IsSome(alternate_remote)
       \/ Some(r) # alternate_remote

\* Classification and execution for a branch that passed the remote filter.
classify_and_execute(s, branch) ==
    LET a == find_branch_action(s.cfg, branch, Unwrap(s.current_branch),
                                Unwrap(remote_default_branch), s.odefault_branch)
    IN  IF ~a.ok THEN Fail(s)
        ELSE execute(Recorded(s, branch), branch, a.val)

\* An iteration that skips the branch on every failure of Git::remote.
iteration_skip_any_error(s, branch) ==
    LET r == remote(s.cfg, branch) IN
    IF ~r.ok THEN s
    ELSE IF filtered_out(r.val) THEN s
    ELSE classify_and_execute(s, branch)

\* One iteration of the for loop of hubsync() on branch.
iteration(s, branch) ==
    LET r == remote(s.cfg, branch) IN
    IF ~r.ok
    THEN IF r.class = "Config" /\ r.code = "NotFound" THEN s ELSE Fail(s)
    ELSE IF filtered_out(r.val) THEN s
    ELSE classify_and_execute(s, branch)

----------------------------------------------------------------------------
\* The start of hubsync(): current branch, default remote, default branch.

\* current_branch without the test for a detached HEAD: some local branch
\* is taken for the current one.
git_current_branch_any(h, refs) ==
    IF ~IsSome(h)
    THEN IF \E n \in Names : IsSome(refs[n])
         THEN Ok(Unwrap(find_local(refs, CHOOSE n \in Names : IsSome(refs[n]))))
         ELSE Err("Reference", "UnbornBranch")
    ELSE IF ~IsSome(find_local(refs, Unwrap(h))) THEN Err("Reference", "UnbornBranch")
    ELSE Ok(Unwrap(find_local(refs, Unwrap(h))))

\* Git::current_branch(): an error when HEAD is detached, and (repo.head())
\* when HEAD points to a branch that does not exist.
git_current_branch(h, refs) ==
    IF ~IsSome(h) THEN Err("GitError", "HeadDetached")
    ELSE IF ~IsSome(find_local(refs, Unwrap(h))) THEN Err("Reference", "UnbornBranch")
    ELSE Ok(Unwrap(find_local(refs, Unwrap(h))))

\* Git::only_one_remote().
only_one_remote(c) ==
    IF Cardinality(c.remotes) = 1
    THEN Some(CHOOSE r \in c.remotes : TRUE)
    ELSE None

\* find_default_remote(git).
find_default_remote(c, h, refs) ==
    IF IsSome(only_one_remote(c)) THEN Ok(Unwrap(only_one_remote(c)))
    ELSE IF ~git_current_branch(h, refs).ok THEN git_current_branch(h, refs)
    ELSE remote(c, git_current_branch(h, refs).val)

\* Git::default_branch(remote): the remote-tracking branch
\* "<remote>/<advertised default>" and the local branch whose upstream it is.
\* With branch.<name>.merge = refs/heads/<name> that local branch can only be
\* the one named like the advertised default.
default_branch(c, refs, r) ==
    LET default_name == c.advertised[r]
        lcl == find_local(refs, default_name)
    IN  IF /\ IsSome(lcl)
           /\ branch_upstream(c, Unwrap(lcl)).ok
           /\ branch_upstream(c, Unwrap(lcl)).val.remote = r
        THEN Ok([upstream |-> branch_upstream(c, Unwrap(lcl)).val,
                 candidate |-> lcl])
        ELSE IF IsSome(find_remote_branch(r, default_name))
        THEN Ok([upstream |-> Unwrap(find_remote_branch(r, default_name)),
                 candidate |-> None])
        ELSE Err("Reference", "NotFound")

\* Git::branch_and_remote(name).
branch_and_remote(c, refs, name) ==
    LET lcl == find_local(refs, name) IN
    IF ~IsSome(lcl) THEN Err("Reference", "NotFound")
    ELSE IF ~remote(c, Unwrap(lcl)).ok THEN remote(c, Unwrap(lcl))
    ELSE Ok([branch |-> Unwrap(lcl), remote |-> remote(c, Unwrap(lcl)).val])

\* The fallback with "master" tried before "main".
master_or_main(c, refs) ==
    IF branch_and_remote(c, refs, "master").ok
    THEN branch_and_remote(c, refs, "master")
    ELSE branch_and_remote(c, refs, "main")

\* git.branch_and_remote("main").or_else(|_| git.branch_and_remote("master")).
main_or_master(c, refs) ==
    IF branch_and_remote(c, refs, "main").ok
    THEN branch_and_remote(c, refs, "main")
    ELSE branch_and_remote(c, refs, "master")

\* Git::local_branches(): a handle for every local branch.
local_branches(refs) == {Handle(n, Unwrap(refs[n])) : n \in {m \in Names : IsSome(refs[m])}}

\* What hubsync() holds when it reaches the for loop (failed = FALSE), or
\* held when a `?` before the loop returned the error (failed = TRUE).
Resolved(failed, cur, dr, rdb, od, alt, fetched) ==
    [failed |-> failed, current_branch |-> cur, default_remote |-> dr,
     remote_default_branch |-> rdb, odefault_branch |-> od,
     alternate_remote |-> alt, fetched |-> fetched]

\* hubsync() up to the for loop: current branch, default remote and its
\* fetch, default branch and candidate, the main/master fallback and the
\* fetch of the alternate remote.
startup(c, h, refs) ==
    LET cur == git_current_branch(h, refs)
        dr == find_default_remote(c, h, refs)
        db == default_branch(c, refs, dr.val)
        fb == main_or_master(c, refs)
    IN  IF ~cur.ok
        THEN Resolved(TRUE, None, None, None, None, None, {})
        ELSE IF ~dr.ok
        THEN Resolved(TRUE, Some(cur.val), None, None, None, None, {})
        ELSE IF ~db.ok
        THEN Resolved(TRUE, Some(cur.val), Some(dr.val), None, None, None, {dr.val})
        ELSE IF IsSome(db.val.candidate)
        THEN Resolved(FALSE, Some(cur.val), Some(dr.val), Some(db.val.upstream),
                      db.val.candidate, None, {dr.val})
        ELSE IF fb.ok
        THEN Resolved(FALSE, Some(cur.val), Some(dr.val), Some(db.val.upstream),
                      Some(fb.val.branch), Some(fb.val.remote),
                      {dr.val, fb.val.remote})
        ELSE Resolved(FALSE, Some(cur.val), Some(dr.val), Some(db.val.upstream),
                      None, None, {dr.val})

----------------------------------------------------------------------------
\* Initial states: a repository and its configuration, hubsync() not started.

OptOf(S) == {None} \cup {Some(x) : x \in S}

\* The history of a run, empty.
EmptyTrail ==
    [fetched |-> {}, classified |-> {}, moved |-> {}, deleted |-> {},
     updated |-> {}, checkouts |-> {}, switched |-> {}, entry |-> None]

\* branch.<name>.remote (br) and branch.<name>.pushremote (pr) of a branch
\* over the configured remotes rs; with pushremotes = FALSE only br is set.
LinkConfigs(rs, pushremotes) ==
    {lc \in [br : OptOf(rs), pr : IF pushremotes THEN OptOf(rs) ELSE {None}] :
        ~(IsSome(lc.br) /\ lc.br = lc.pr)}

\* The remote-tracking refs "<r>/<n>" for branch name n: one exists for the
\* advertised default of a configured remote, one may exist where the
\* branch's configuration names the remote, and no other is ever read.
TrackingOf(n, lc, rs, adv) ==
    {f \in [Remotes -> OptOf(Commits)] :
        \A r \in Remotes :
            /\ r \notin rs => f[r] = None
            /\ (r \in rs /\ adv[r] = n) => IsSome(f[r])
            /\ (r \in rs /\ adv[r] # n /\ Some(r) \notin {lc.br, lc.pr}) => f[r] = None}

\* No local branch of this name: only its remote-tracking refs.
Absent(n, rs, adv) ==
    {[tip |-> None, br |-> None, pr |-> None, up |-> f] :
        f \in TrackingOf(n, [br |-> None, pr |-> None], rs, adv)}

\* A local branch of this name: a tip, a link configuration and its
\* remote-tracking refs.
Present(n, rs, adv, pushremotes) ==
    UNION {UNION {{[tip |-> Some(c), br |-> lc.br, pr |-> lc.pr, up |-> f] :
                       f \in TrackingOf(n, lc, rs, adv)} :
                  lc \in LinkConfigs(rs, pushremotes)} :
           c \in Commits}

\* Every remote advertises "main" as its default branch.
Advertised == [r \in Remotes |-> "main"]

\* The repository assembled from the profiles of the three names.
InitRepo(rs, pd, prof, h) ==
    /\ local = [n \in Names |-> prof[n].tip]
    /\ tracking = [r \in Remotes |-> [n \in Names |-> prof[n].up[r]]]
    /\ cfg = [remotes |-> rs,
              branch_remote |-> [n \in Names |-> prof[n].br],
              pushremote |-> [n \in Names |-> prof[n].pr],
              pushdefault |-> pd,
              advertised |-> Advertised]
    /\ head = h
    /\ worktree = IF IsSome(h) THEN Unwrap(prof[Unwrap(h)].tip) ELSE 1

\* HEAD: detached, or on one of the local branches of prof.
Heads(prof) == OptOf({n \in Names : IsSome(prof[n].tip)})

InitHub ==
    /\ pc = "start"
    /\ run = "first"
    /\ current_branch = None
    /\ odefault_branch = None
    /\ default_remote = None
    /\ alternate_remote = None
    /\ remote_default_branch = None
    /\ branches = {}
    /\ visited = {}
    /\ cad_branch = None
    /\ action = None
    /\ trail = EmptyTrail

\* A local branch whose branch.<name>.pushremote is not a valid remote name.
InvalidPushRemote(n, rs, adv) ==
    UNION {UNION {{[tip |-> Some(c), br |-> br, pr |-> Some(InvalidRemoteName),
                    up |-> f] :
                       f \in TrackingOf(n, [br |-> br, pr |-> None], rs, adv)} :
                  br \in OptOf(rs)} :
           c \in Commits}

\* Repositories with the single remote "origin" and up to three local
\* branches, linked through branch.<name>.remote or remote.pushdefault.
InitOneRemote ==
    \E pd \in OptOf({"origin"}) :
    \E pm \in Absent("main", {"origin"}, Advertised)
               \cup Present("main", {"origin"}, Advertised, FALSE) :
    \E pa \in Absent("master", {"origin"}, Advertised)
               \cup Present("master", {"origin"}, Advertised, FALSE) :
    \E pt \in Absent("topic", {"origin"}, Advertised)
               \cup Present("topic", {"origin"}, Advertised, FALSE) :
    \E h \in Heads([main |-> pm, master |-> pa, topic |-> pt]) :
        InitRepo({"origin"}, pd, [main |-> pm, master |-> pa, topic |-> pt], h)

\* Repositories with the remotes "origin" and "fork" and the local branches
\* "main" and "topic".
InitTwoRemotes ==
    \E pd \in OptOf(Remotes) :
    \E pm \in Absent("main", Remotes, Advertised)
               \cup Present("main", Remotes, Advertised, FALSE) :
    \E pa \in Absent("master", Remotes, Advertised) :
    \E pt \in Absent("topic", Remotes, Advertised)
               \cup Present("topic", Remotes, Advertised, FALSE) :
    \E h \in Heads([main |-> pm, master |-> pa, topic |-> pt]) :
        InitRepo(Remotes, pd, [main |-> pm, master |-> pa, topic |-> pt], h)

\* A local branch at the root commit with no link configured and no
\* remote-tracking ref of its name.
Unlinked == [tip |-> Some(1), br |-> None, pr |-> None,
             up |-> [r \in Remotes |-> None]]

\* Repositories with the single remote "origin" in which remote.pushdefault
\* or the pushremote of "topic" is not a valid remote name.
InitInvalidNames ==
    \E pd \in OptOf({InvalidRemoteName}) :
    \E pm \in Absent("main", {"origin"}, Advertised)
               \cup Present("main", {"origin"}, Advertised, FALSE) :
    \E pa \in Absent("master", {"origin"}, Advertised) \cup {Unlinked} :
    \E pt \in Present("topic", {"origin"}, Advertised, FALSE)
               \cup InvalidPushRemote("topic", {"origin"}, Advertised) :
    \E h \in Heads([main |-> pm, master |-> pa, topic |-> pt]) :
        InitRepo({"origin"}, pd, [main |-> pm, master |-> pa, topic |-> pt], h)

Init ==
    /\ InitOneRemote \/ InitTwoRemotes \/ InitInvalidNames
    /\ InitHub

----------------------------------------------------------------------------
\* The actions of hubsync().

\* The loop state record of the current state.
LoopState ==
    [local |-> local, head |-> head, worktree |-> worktree, cfg |-> cfg,
     current_branch |-> current_branch, odefault_branch |-> odefault_branch,
     action |-> action, trail |-> trail, failed |-> FALSE]

\* The next state holds the loop state record s.
Becomes(s) ==
    /\ local' = s.local
    /\ head' = s.head
    /\ worktree' = s.worktree
    /\ cfg' = s.cfg
    /\ current_branch' = s.current_branch
    /\ odefault_branch' = s.odefault_branch
    /\ action' = s.action
    /\ trail' = s.trail

\* What the loop starts from, kept in the history.
Entry(st) ==
    [local |-> local, head |-> head, worktree |-> worktree, cfg |-> cfg,
     current_branch |-> st.current_branch,
     odefault_branch |-> st.odefault_branch]

\* hubsync() from its first line to the evaluation of git.local_branches().
Start ==
    /\ pc = "start"
    /\ LET st == startup(cfg, head, local) IN
        /\ current_branch' = st.current_branch
        /\ default_remote' = st.default_remote
        /\ remote_default_branch' = st.remote_default_branch
        /\ odefault_branch' = st.odefault_branch
        /\ alternate_remote' = st.alternate_remote
        /\ branches' = IF st.failed THEN {} ELSE local_branches(local)
        /\ trail' = [EmptyTrail EXCEPT
                        !.fetched = st.fetched,
                        !.entry = IF st.failed THEN None ELSE Some(Entry(st))]
        /\ pc' = IF st.failed THEN "error" ELSE "loop"
    /\ UNCHANGED << repo_vars, run, visited, cad_branch, action >>

\* The loop reaches branch b and its classification is CheckoutAndDelete.
is_cad(s, b) ==
    LET r == remote(s.cfg, b)
        a == find_branch_action(s.cfg, b, Unwrap(s.current_branch),
                                Unwrap(remote_default_branch), s.odefault_branch)
    IN  /\ r.ok
        /\ ~filtered_out(r.val)
        /\ a.ok
        /\ a.val.tag = "CheckoutAndDelete"

\* An iteration that does not advance the loop past the branch.
Iterate_in_place ==
    /\ pc = "loop"
    /\ \E b \in branches :
        /\ b.name \notin visited
        /\ ~is_cad(LoopState, b)
        /\ LET s == iteration(LoopState, b) IN
            /\ Becomes(s)
            /\ pc' = IF s.failed THEN "error" ELSE "loop"
    /\ UNCHANGED << tracking, run, default_remote, alternate_remote,
                    remote_default_branch, branches, visited, cad_branch >>

\* One iteration of the for loop, for every outcome but CheckoutAndDelete.
Iterate ==
    /\ pc = "loop"
    /\ \E b \in branches :
        /\ b.name \notin visited
        /\ ~is_cad(LoopState, b)
        /\ LET s == iteration(LoopState, b) IN
            /\ Becomes(s)
            /\ pc' = IF s.failed THEN "error" ELSE "loop"
        /\ visited' = visited \cup {b.name}
    /\ UNCHANGED << tracking, run, default_remote, alternate_remote,
                    remote_default_branch, branches, cad_branch >>

\* The iteration classified CheckoutAndDelete: the first half of the arm.
CadCheckout ==
    /\ pc = "loop"
    /\ \E b \in branches :
        /\ b.name \notin visited
        /\ is_cad(LoopState, b)
        /\ LET s == cad_checkout(Recorded(LoopState, b)) IN
            /\ Becomes(s)
            /\ pc' = IF s.failed THEN "error" ELSE "cad"
        /\ cad_branch' = Some(b)
    /\ UNCHANGED << tracking, run, default_remote, alternate_remote,
                    remote_default_branch, branches, visited >>

\* The second half of the CheckoutAndDelete arm: action_delete(branch).
CadDelete ==
    /\ pc = "cad"
    /\ LET s == action_delete(LoopState, Unwrap(cad_branch)) IN
        /\ Becomes(s)
        /\ pc' = IF s.failed THEN "error" ELSE "loop"
    /\ visited' = visited \cup {Unwrap(cad_branch).name}
    /\ cad_branch' = None
    /\ UNCHANGED << tracking, run, default_remote, alternate_remote,
                    remote_default_branch, branches >>

\* The for loop is through every branch: hubsync() returns Ok(()).
Finish ==
    /\ pc = "loop"
    /\ \A b \in branches : b.name \in visited
    /\ pc' = "done"
    /\ UNCHANGED << repo_vars, run, hub_vars, action, trail >>

\* hubsync() is invoked again after a run that returned Ok(()).
Rerun ==
    /\ pc = "done"
    /\ run = "first"
    /\ run' = "second"
    /\ pc' = "start"
    /\ current_branch' = None
    /\ odefault_branch' = None
    /\ default_remote' = None
    /\ alternate_remote' = None
    /\ remote_default_branch' = None
    /\ branches' = {}
    /\ visited' = {}
    /\ cad_branch' = None
    /\ action' = None
    /\ trail' = EmptyTrail
    /\ UNCHANGED repo_vars

Next == Start \/ Iterate \/ CadCheckout \/ CadDelete \/ Finish

Spec == Init /\ [][Next]_vars

\* hubsync() is a sequential function that runs until it returns: a step
\* that is possible is eventually taken.  The runs start from the
\* repositories with the single remote "origin", "main" at the root commit
\* tracking origin/main, "master" absent or unlinked, and "topic" at one of
\* the first two commits with any link: runs that end in Ok(()) and in errors.
InitFair ==
    /\ \E pm \in {p \in Present("main", {"origin"}, Advertised, FALSE) :
                      p.tip = Some(1) /\ IsSome(p.br)} :
       \E pa \in Absent("master", {"origin"}, Advertised) \cup {Unlinked} :
       \E pt \in {p \in Present("topic", {"origin"}, Advertised, FALSE)
                          \cup InvalidPushRemote("topic", {"origin"}, Advertised) :
                      p.tip \in {Some(1), Some(2)}} :
       \E h \in Heads([main |-> pm, master |-> pa, topic |-> pt]) :
           InitRepo({"origin"}, None, [main |-> pm, master |-> pa, topic |-> pt], h)
    /\ InitHub

SpecFair == InitFair /\ [][Next]_vars /\ WF_vars(Next)

NextTwice == Next \/ Rerun

SpecTwice == Init /\ [][NextTwice]_vars

----------------------------------------------------------------------------
\* The classifier on its own: find_branch_action applied to a branch, a
\* current branch, a remote default branch and a candidate that are chosen
\* freely, as test_find_branch_action does.

\* "main" as the bare local branch the harness may name as current branch
\* or as candidate.
BareMain(rs) ==
    {[tip |-> Some(1), br |-> None, pr |-> None, up |-> f] :
        f \in TrackingOf("main", [br |-> None, pr |-> None], rs, Advertised)}

InitFBA ==
    /\ \E rs \in {{"origin"}, Remotes} :
       \E pm \in BareMain(rs) :
       \E pa \in Absent("master", rs, Advertised) :
       \E pt \in Present("topic", rs, Advertised, TRUE)
                   \cup InvalidPushRemote("topic", rs, Advertised) :
       \E h \in {"main", "topic"} :
           InitRepo(rs, None, [main |-> pm, master |-> pa, topic |-> pt], Some(h))
    /\ pc = "classify"
    /\ run = "first"
    /\ current_branch = find_local(local, Unwrap(head))
    /\ odefault_branch \in {None} \cup {Some(b) : b \in local_branches(local)}
    /\ \E r \in cfg.remotes :
           remote_default_branch = find_remote_branch(r, cfg.advertised[r])
    /\ default_remote = None
    /\ alternate_remote = None
    /\ branches = {}
    /\ visited = {}
    /\ cad_branch = None
    /\ action = None
    /\ trail = EmptyTrail

\* find_branch_action on one of the local branches.
Classify ==
    /\ pc = "classify"
    /\ \E b \in local_branches(local) :
           action' = Some(Classified(cfg, b, Unwrap(current_branch),
                                     Unwrap(remote_default_branch),
                                     odefault_branch))
    /\ pc' = "classified"
    /\ UNCHANGED << repo_vars, run, hub_vars, trail >>

SpecFBA == InitFBA /\ [][Classify]_vars

----------------------------------------------------------------------------
\* find_default_remote on its own, as test2_find_default_remote_upstream,
\* test2_find_default_remote_no_upstream and
\* test3_find_default_remote_pushdefault apply it: a repository with any set
\* of remotes, the local branches "main" and "topic" with any configured
\* names, HEAD on one of them or detached.

\* The names a configuration key may hold: a remote of the model, configured
\* in the repository or not, or a name that is not valid.
ConfiguredNames == OptOf(Remotes \cup {InvalidRemoteName})

InitFDR ==
    /\ \E rs \in SUBSET Remotes :
       \E br \in ConfiguredNames :
       \E pr \in ConfiguredNames :
       \E pd \in ConfiguredNames :
           cfg = [remotes |-> rs,
                  branch_remote |-> [n \in Names |-> IF n = "master" THEN None ELSE br],
                  pushremote |-> [n \in Names |-> IF n = "master" THEN None ELSE pr],
                  pushdefault |-> pd,
                  advertised |-> Advertised]
    /\ local = [n \in Names |-> IF n = "master" THEN None ELSE Some(1)]
    /\ tracking = [r \in Remotes |-> [n \in Names |-> None]]
    /\ head \in OptOf({"main", "topic"})
    /\ worktree = 1
    /\ pc = "resolve"
    /\ run = "first"
    /\ current_branch = None
    /\ odefault_branch = None
    /\ default_remote = None
    /\ alternate_remote = None
    /\ remote_default_branch = None
    /\ branches = {}
    /\ visited = {}
    /\ cad_branch = None
    /\ action = None
    /\ trail = EmptyTrail

\* find_default_remote(git); its result is kept in action.
FindDefaultRemote ==
    /\ pc = "resolve"
    /\ action' = Some([result |-> find_default_remote(cfg, head, local)])
    /\ pc' = "resolved"
    /\ UNCHANGED << repo_vars, run, hub_vars, trail >>

SpecFDR == InitFDR /\ [][FindDefaultRemote]_vars

----------------------------------------------------------------------------
\* Properties of the classifier (SpecFBA).

\* The last classification.
Last == Unwrap(action)

\* The last classification was of a branch with a resolvable upstream.
LastLinked == IsSome(action) /\ Last.link.ok

\* The last classification was of a branch with no resolvable link: the
\* upstream lookup found no reference or no configuration key.
LastLinkless ==
    /\ IsSome(action)
    /\ ~Last.link.ok
    /\ Last.link.code = "NotFound"

\* The commit a is reachable from the commit b and is not b.
StrictAncestor(a, b) == a # b /\ a \in Reach(b)

\* C2: a branch whose tip equals the tip of its resolvable upstream is
\* classified UpToDate, whatever the current branch and the candidate are.
C2_EqualTipsUpToDate ==
    (LastLinked /\ Last.branch.tip = Last.link.val.tip)
        => Last.result = Ok(UpToDate)

\* C2 witness: equal tips, classified as the current branch with a
\* candidate available.
C2_Witness ==
    /\ LastLinked
    /\ Last.branch.tip = Last.link.val.tip
    /\ Last.branch.name = Last.current.name
    /\ IsSome(Last.odefault)
    /\ Last.result = Ok(UpToDate)

\* C3: a branch strictly behind its upstream is classified Merge exactly
\* when it is the current branch and UpdateRef otherwise, and the action
\* carries the upstream and the branch's tip.
C3_BehindMergeOrUpdateRef ==
    (LastLinked /\ StrictAncestor(Last.branch.tip, Last.link.val.tip))
        => /\ Last.result.ok
           /\ Last.result.val.tag \in {"Merge", "UpdateRef"}
           /\ (Last.result.val.tag = "Merge") <=> (Last.branch.name = Last.current.name)
           /\ Last.result.val.upstream = Last.link.val
           /\ Last.result.val.oid = Last.branch.tip

\* C3 witness: a branch that is not current, behind its upstream,
\* classified UpdateRef.
C3_Witness ==
    /\ LastLinked
    /\ StrictAncestor(Last.branch.tip, Last.link.val.tip)
    /\ Last.branch.name # Last.current.name
    /\ Last.result = Ok(UpdateRef(Last.link.val, Last.branch.tip))

\* C4: a branch whose tip differs from its upstream's and is not an
\* ancestor of it is classified Unpushed, current or not.
C4_AheadOrDivergedUnpushed ==
    (/\ LastLinked
     /\ Last.branch.tip # Last.link.val.tip
     /\ Last.branch.tip \notin Reach(Last.link.val.tip))
        => Last.result = Ok(Unpushed)

\* C4 witness: the current branch diverged from its upstream (neither tip
\* reaches the other), classified Unpushed.
C4_Witness ==
    /\ LastLinked
    /\ Last.branch.tip \notin Reach(Last.link.val.tip)
    /\ Last.link.val.tip \notin Reach(Last.branch.tip)
    /\ Last.branch.name = Last.current.name
    /\ Last.result = Ok(Unpushed)

\* The table of C5 over the three booleans.
LinklessTable(merged, current, candidate) ==
    IF ~merged THEN Unmerged
    ELSE IF ~current THEN Delete
    ELSE IF candidate THEN CheckoutAndDelete
    ELSE NoDefault

\* C5: for a branch with no resolvable link the classification is the table
\* over three booleans: merged (the remote default tip is a descendant of the
\* branch tip, the test Range::is_ancestor makes), branch is current,
\* candidate available; which branch the candidate is does not matter.
C5_LinklessTable ==
    LastLinkless
        => Last.result =
              Ok(LinklessTable(graph_descendant_of(Last.rdb.tip, Last.branch.tip),
                               Last.branch.name = Last.current.name,
                               IsSome(Last.odefault)))

\* C5 witness: a merged current branch with no link and no candidate,
\* classified NoDefault.
C5_Witness ==
    /\ LastLinkless
    /\ StrictAncestor(Last.branch.tip, Last.rdb.tip)
    /\ Last.branch.name = Last.current.name
    /\ ~IsSome(Last.odefault)
    /\ Last.result = Ok(NoDefault)

\* C6: a branch with no resolvable link whose tip equals the remote default
\* branch's tip counts as merged: it is never classified Unmerged.
C6_EqualTipCountsAsMerged ==
    (LastLinkless /\ Last.branch.tip = Last.rdb.tip)
        => Last.result.val.tag \in {"Delete", "CheckoutAndDelete", "NoDefault"}

\* C6 witness of the divergence: such a branch classified Unmerged.
C6_Witness ==
    /\ LastLinkless
    /\ Last.branch.tip = Last.rdb.tip
    /\ Last.result = Ok(Unmerged)

----------------------------------------------------------------------------
\* Properties of a run of hubsync() (Spec) and of two runs (SpecTwice).

\* The tips of the refs in a map from names to Option<commit>.
Tips(refs) == {Unwrap(refs[n]) : n \in {m \in DOMAIN refs : IsSome(refs[m])}}

\* The tips of the remote-tracking refs.
TrackingTips == UNION {Tips(tracking[r]) : r \in Remotes}

\* The state the loop of this run started from.
AtEntry == Unwrap(trail.entry)

\* C1, as a state predicate: every commit reachable from a local branch tip
\* when the loop starts is reachable from a local branch tip or from a
\* remote-tracking tip, during and after the loop.
CommitsProtected ==
    IsSome(trail.entry)
        => ReachAll(Tips(AtEntry.local)) \subseteq ReachAll(Tips(local) \cup TrackingTips)

\* C1, as a step property: a local ref only moves to a descendant of its old
\* tip, and a local branch is only deleted when its tip is reachable from
\* the remote default branch's tip.
SafeStep ==
    \A n \in Names :
        (IsSome(local[n]) /\ local'[n] # local[n])
            => IF IsSome(local'[n])
               THEN Unwrap(local[n]) \in Reach(Unwrap(local'[n]))
               ELSE /\ IsSome(remote_default_branch)
                    /\ Unwrap(local[n]) \in Reach(Unwrap(remote_default_branch).tip)

\* C1: commit protection over any run of hubsync().
C1_CommitProtection == []CommitsProtected /\ [][SafeStep]_vars

\* C1 witness: a run that has moved one branch and deleted another is over.
C1_Witness ==
    /\ pc = "done"
    /\ trail.moved # {}
    /\ trail.deleted # {}

\* C7: the second of two runs moves no ref, deletes no branch and performs
\* no checkout.
C7_SecondRunNoOp ==
    run = "second"
        => /\ trail.moved = {}
           /\ trail.deleted = {}
           /\ trail.checkouts = {}
           /\ trail.switched = {}

\* The loop state the loop of this run started from.
EntryState ==
    [local |-> AtEntry.local, head |-> AtEntry.head,
     worktree |-> AtEntry.worktree, cfg |-> AtEntry.cfg,
     current_branch |-> AtEntry.current_branch,
     odefault_branch |-> AtEntry.odefault_branch,
     action |-> None, trail |-> EmptyTrail, failed |-> FALSE]

\* The enumeration orders of a set of branch handles.
Orders(S) ==
    {ord \in [1..Cardinality(S) -> S] :
        \A i, j \in 1..Cardinality(S) : ord[i] = ord[j] => i = j}

RECURSIVE RunLoop(_, _)
\* The for loop of hubsync() from loop state s over the branches in order.
RunLoop(s, order) ==
    IF order = <<>> \/ s.failed THEN s
    ELSE RunLoop(iteration(s, Head(order)), Tail(order))

\* C8: when a run succeeds, every enumeration order of the same branches
\* under which the loop succeeds ends with the same local branches, the same
\* tips and the same checked-out branch.
C8_OrderIndependent ==
    pc = "done"
        => \A ord \in Orders(branches) :
              LET f == RunLoop(EntryState, ord) IN
              ~f.failed => (f.local = local /\ f.head = head)

\* The candidate a CheckoutAndDelete of this run has checked out.
Switched == CHOOSE d \in trail.switched : TRUE

\* C9, between the two halves of the arm: the candidate is checked out and
\* is the current branch, the stored candidate is cleared, and the processed
\* branch is not deleted yet.
CheckoutBeforeDelete ==
    pc = "cad"
        => /\ trail.switched # {}
           /\ head = Some(Switched.name)
           /\ worktree = Switched.tip
           /\ current_branch = Some(Switched)
           /\ odefault_branch = None
           /\ local[Unwrap(cad_branch).name] = Some(Unwrap(cad_branch).tip)
           /\ Unwrap(cad_branch).name \notin trail.deleted

\* C9, after the checkout: no candidate is stored for the rest of the run.
CandidateConsumed == trail.switched # {} => odefault_branch = None

\* C9, as a step property: the arm deletes the processed branch in its second
\* half, and every classification made after the checkout is made with no
\* candidate.
AfterCheckout ==
    /\ (pc = "cad" /\ pc' = "loop")
          => /\ local'[Unwrap(cad_branch).name] = None
             /\ head' = head
    /\ (trail.switched # {} /\ trail'.classified # trail.classified)
          => ~IsSome(Unwrap(action').odefault)

\* C9: the order of the CheckoutAndDelete arm and the consumed candidate.
C9_CheckoutThenDelete ==
    [](CheckoutBeforeDelete /\ CandidateConsumed) /\ [][AfterCheckout]_vars

\* C9 witness: after a CheckoutAndDelete, a later branch has been classified.
C9_Witness ==
    /\ trail.switched # {}
    /\ trail.deleted # {}
    /\ IsSome(action)
    /\ Last.result.val.tag # "CheckoutAndDelete"
    /\ ~IsSome(Last.odefault)
    /\ Last.branch.name = Unwrap(current_branch).name

\* C10, as a step property: an UpdateRef executed on the stored candidate
\* leaves the post-update handle stored.
CandidateRefreshed ==
    (/\ IsSome(odefault_branch)
     /\ trail'.updated # trail.updated
     /\ Unwrap(odefault_branch).name \in trail'.updated \ trail.updated)
        => odefault_branch' =
              Some(Handle(Unwrap(odefault_branch).name,
                          Unwrap(local'[Unwrap(odefault_branch).name])))

\* C10, at the checkout: a candidate that UpdateRef has moved in this run is
\* checked out at its live tip.
LiveTipCheckedOut ==
    (pc = "cad" /\ Switched.name \in trail.updated)
        => /\ local[Switched.name] = Some(Switched.tip)
           /\ worktree = Unwrap(local[Switched.name])

\* C10: the candidate is refreshed by UpdateRef and checked out live.
C10_CandidateRefreshed == []LiveTipCheckedOut /\ [][CandidateRefreshed]_vars

\* C10 witness: the candidate was moved by UpdateRef and then checked out
\* by CheckoutAndDelete.
C10_Witness ==
    /\ pc = "cad"
    /\ Switched.name \in trail.updated
    /\ worktree = Unwrap(local[Switched.name])

----------------------------------------------------------------------------
\* Properties of the loop's filters and of the start of hubsync() (Spec).

\* The remotes whose branches a run processes: the default remote and, when
\* the main/master fallback found one, the alternate remote.
RunRemotes ==
    {Unwrap(o) : o \in {x \in {default_remote, alternate_remote} : IsSome(x)}}

\* The branch b resolves to a remote that is not one of the run's remotes.
OfOtherRemote(c, b) ==
    /\ remote(c, b).ok
    /\ remote(c, b).val \notin RunRemotes

\* C11, as a state predicate: every branch the run has classified resolved,
\* in the configuration the loop started from, to the default remote or to
\* the alternate remote.
ClassifiedOnRunRemotes ==
    \A b \in branches :
        b.name \in trail.classified
            => /\ remote(AtEntry.cfg, b).ok
               /\ remote(AtEntry.cfg, b).val \in RunRemotes

\* C11, as a step property: the iteration on a branch of another remote
\* classifies nothing and changes no ref, neither HEAD nor the working tree,
\* nor current_branch nor the candidate, and the loop goes on.
SkippedUnchanged ==
    \A b \in branches :
        (/\ pc = "loop"
         /\ b.name \in visited' \ visited
         /\ OfOtherRemote(cfg, b))
            => /\ UNCHANGED << local, head, worktree, cfg, current_branch,
                               odefault_branch, action, trail >>
               /\ pc' = "loop"

\* C11: a branch whose remote is neither the default remote nor the
\* alternate remote is skipped, never classified, and its iteration changes
\* nothing; with no alternate remote only the default remote's branches are
\* processed.
C11_RemoteFilter == []ClassifiedOnRunRemotes /\ [][SkippedUnchanged]_vars

\* C11 witness: a finished run with an alternate remote went past a branch
\* of a third kind of remote without classifying it, and classified another.
C11_Witness ==
    /\ pc = "done"
    /\ IsSome(alternate_remote)
    /\ trail.classified # {}
    /\ \E b \in branches :
        /\ b.name \in visited
        /\ b.name \notin trail.classified
        /\ OfOtherRemote(cfg, b)

\* The remote-tracking branch "<r>/<n>" of the current state when o names a
\* valid remote r and the ref exists, else None.
TrackingBranch(o, n) ==
    IF IsSome(o) /\ Unwrap(o) \in Remotes THEN find_remote_branch(Unwrap(o), n)
    ELSE None

\* The explicitly configured upstream of the last classified branch.
LastConfigured ==
    TrackingBranch(cfg.branch_remote[Last.branch.name], Last.branch.name)

\* The branch "<branch.<name>.pushremote>/<name>" of the last classified
\* branch.
LastPushBranch ==
    TrackingBranch(cfg.pushremote[Last.branch.name], Last.branch.name)

\* C12, the lookup: the configured upstream when it resolves, otherwise the
\* push-remote branch; with neither, the failure is config-key-not-found
\* when no pushremote is configured, reference-not-found when the
\* push-remote branch does not exist, and invalid-spec when the pushremote is
\* not a valid name.
UpstreamResolution ==
    IF IsSome(LastConfigured) THEN Last.link = Ok(Unwrap(LastConfigured))
    ELSE IF IsSome(LastPushBranch) THEN Last.link = Ok(Unwrap(LastPushBranch))
    ELSE /\ ~Last.link.ok
         /\ Last.link =
              IF ~IsSome(cfg.pushremote[Last.branch.name])
              THEN Err("Config", "NotFound")
              ELSE IF Unwrap(cfg.pushremote[Last.branch.name]) \in Remotes
              THEN Err("Reference", "NotFound")
              ELSE Err("Reference", "InvalidSpec")

\* C12, the classifier: a failure that is reference-not-found or
\* config-key-not-found gives an action of the no-link half of the table; any
\* other failure is returned as it is and no action is produced.
FailureRouting ==
    ~Last.link.ok
        => IF Last.link \in {Err("Reference", "NotFound"), Err("Config", "NotFound")}
           THEN /\ Last.result.ok
                /\ Last.result.val.tag
                      \in {"CheckoutAndDelete", "NoDefault", "Delete", "Unmerged"}
           ELSE Last.result = Last.link

\* C12: upstream-link resolution and the routing of its failures in
\* find_branch_action.
C12_UpstreamResolution ==
    IsSome(action) => (UpstreamResolution /\ FailureRouting)

\* C12 witness: the configured upstream does not resolve, the pushremote is
\* not a valid name, and the classification ends in the lookup's error.
C12_Witness ==
    /\ IsSome(action)
    /\ IsSome(cfg.branch_remote[Last.branch.name])
    /\ ~IsSome(LastConfigured)
    /\ Last.link = Err("Reference", "InvalidSpec")
    /\ ~Last.result.ok

\* C12 witness of the fallback: no configured upstream, the push-remote
\* branch resolves and the branch is classified against it.
C12_FallbackReached ==
    /\ IsSome(action)
    /\ ~IsSome(LastConfigured)
    /\ IsSome(LastPushBranch)
    /\ Last.result.ok
    /\ Last.result.val.tag \in {"UpToDate", "Merge", "UpdateRef", "Unpushed"}

\* The failure of Git::remote the loop swallows: no remote is configured
\* for the branch.
NoRemoteConfigured == Err("Config", "NotFound")

\* The iteration of this step is on the branch b.
Visits(b) == pc = "loop" /\ b.name \in visited' \ visited

\* Nothing of the repository and of the orchestrator changes in this step.
NothingChanges ==
    UNCHANGED << local, tracking, head, worktree, cfg, current_branch,
                 odefault_branch, action, trail >>

\* C13, the swallowed error: the iteration on a branch with no remote
\* configured changes nothing and the loop goes on.
NoRemoteSkipped ==
    \A b \in branches :
        (Visits(b) /\ remote(cfg, b) = NoRemoteConfigured)
            => (NothingChanges /\ pc' = "loop")

\* C13, remote resolution: any other failure of Git::remote ends the run.
RemoteErrorAborts ==
    \A b \in branches :
        (Visits(b) /\ ~remote(cfg, b).ok /\ remote(cfg, b) # NoRemoteConfigured)
            => (NothingChanges /\ pc' = "error")

\* C13, classification: a failure of the upstream lookup that is not a
\* missing reference or configuration key ends the run with no action.
ClassificationErrorAborts ==
    \A b \in branches :
        (/\ Visits(b)
         /\ remote(cfg, b).ok
         /\ remote(cfg, b).val \in RunRemotes
         /\ ~upstream(cfg, b).ok
         /\ upstream(cfg, b).code # "NotFound")
            => (NothingChanges /\ pc' = "error")

\* C13, execution: a deletion git2 refuses (the branch HEAD points to, or a
\* ref that no longer has the handle's value) ends the run.
ExecutionErrorAborts ==
    (/\ pc = "cad"
     /\ \/ head = Some(Unwrap(cad_branch).name)
        \/ local[Unwrap(cad_branch).name] # Some(Unwrap(cad_branch).tip))
        => (local' = local /\ pc' = "error")

\* C13, the abort: after an error no step of hubsync() follows, so no later
\* branch is classified or acted upon.
AbortIsFinal == pc = "error" => UNCHANGED vars

\* C13: a branch with no remote configured is skipped, every other error
\* ends the run at once.
C13_ErrorHandling ==
    [][/\ NoRemoteSkipped
       /\ RemoteErrorAborts
       /\ ClassificationErrorAborts
       /\ ExecutionErrorAborts
       /\ AbortIsFinal]_vars

\* C13 witness: the run went past a branch with no remote configured, then
\* stopped on a later branch whose remote resolution failed otherwise, with a
\* branch left that the loop never reached.
C13_Witness ==
    /\ pc = "error"
    /\ \E b1, b2, b3 \in branches :
        /\ b1.name \in visited
        /\ remote(cfg, b1) = NoRemoteConfigured
        /\ b2.name \in visited
        /\ remote(cfg, b2) = Err("Config", "InvalidSpec")
        /\ b3.name \notin visited

\* The loop stopped on a hard error.
Aborted == pc = "error" /\ IsSome(trail.entry)

\* The branches the loop did not reach before it stopped.
Unreached ==
    {b \in branches : b.name \notin visited /\ cad_branch # Some(b)}

\* C14, the branches after the failing one: ref and configuration are what
\* they were when the run started.
UnreachedUntouched ==
    \A b \in Unreached :
        /\ local[b.name] = AtEntry.local[b.name]
        /\ cfg.branch_remote[b.name] = AtEntry.cfg.branch_remote[b.name]
        /\ cfg.pushremote[b.name] = AtEntry.cfg.pushremote[b.name]

\* C14, the branches before the failing one: a deleted branch is still
\* deleted, a moved ref still points away from its old tip, and the working
\* tree and HEAD are where the last checkout left them.
EffectsKept ==
    /\ \A n \in trail.deleted : IsSome(AtEntry.local[n]) /\ local[n] = None
    /\ \A n \in trail.moved :
          /\ IsSome(local[n])
          /\ local[n] # AtEntry.local[n]
          /\ Unwrap(AtEntry.local[n]) \in Reach(Unwrap(local[n]))
    /\ trail.checkouts # {} => worktree \in trail.checkouts
    /\ trail.switched # {} => head = Some(Switched.name)

\* C14: a run that stops on a hard error keeps what it has done and leaves
\* the branches it did not reach as they were.
C14_PartialRun == Aborted => (UnreachedUntouched /\ EffectsKept)

\* C14 witness: the run stopped on a hard error after it had moved a ref,
\* with a branch it had not reached.
C14_Witness ==
    /\ Aborted
    /\ trail.moved # {}
    /\ Unreached # {}
    /\ cad_branch = None

\* C15: with HEAD detached when hubsync() starts, the run ends in an error
\* with no fetch issued, no branch enumerated or classified, no ref moved or
\* deleted and nothing checked out.  (HEAD is detached during a run only if
\* it was at the start: a checkout sets HEAD to a branch.)
C15_DetachedHeadFatal ==
    (head = None /\ pc # "start")
        => /\ pc = "error"
           /\ trail = EmptyTrail
           /\ branches = {}
           /\ visited = {}
           /\ action = None
           /\ current_branch = None
           /\ default_remote = None

\* C15 witness: the run has ended on a detached HEAD in a repository with a
\* single remote and a local branch behind its upstream, where a run from
\* that branch would have fetched and moved it.
C15_Witness ==
    /\ head = None
    /\ pc = "error"
    /\ Cardinality(cfg.remotes) = 1
    /\ \E n \in Names :
        /\ IsSome(local[n])
        /\ IsSome(cfg.branch_remote[n])
        /\ IsSome(TrackingBranch(cfg.branch_remote[n], n))
        /\ StrictAncestor(Unwrap(local[n]),
                          Unwrap(TrackingBranch(cfg.branch_remote[n], n)).tip)

----------------------------------------------------------------------------
\* Properties of find_default_remote (SpecFDR).

\* The name Git::remote reads for the checked-out branch: the first that is
\* configured of branch.<name>.remote, branch.<name>.pushremote and
\* remote.pushdefault.
HeadRemoteName ==
    IF IsSome(cfg.branch_remote[Unwrap(head)]) THEN cfg.branch_remote[Unwrap(head)]
    ELSE IF IsSome(cfg.pushremote[Unwrap(head)]) THEN cfg.pushremote[Unwrap(head)]
    ELSE cfg.pushdefault

\* C16: with exactly one remote find_default_remote returns it, whatever the
\* checked-out branch and its configuration are; otherwise it returns the
\* remote named by the first configured of the checked-out branch's upstream
\* remote, its pushremote and remote.pushdefault, and it fails when HEAD is
\* detached, when none of the three is configured and when the name read is
\* not a remote of the repository.
C16_DefaultRemote ==
    pc = "resolved"
        => LET result == Last.result IN
           IF Cardinality(cfg.remotes) = 1
           THEN result.ok /\ cfg.remotes = {result.val}
           ELSE IF head = None THEN ~result.ok
           ELSE IF ~IsSome(HeadRemoteName) THEN result = Err("Config", "NotFound")
           ELSE IF Unwrap(HeadRemoteName) \in cfg.remotes
           THEN result = Ok(Unwrap(HeadRemoteName))
           ELSE ~result.ok

\* C16 witness: two remotes, no upstream remote for the checked-out branch,
\* pushremote and remote.pushdefault naming different remotes: the
\* pushremote wins.
C16_Witness ==
    /\ pc = "resolved"
    /\ cfg.remotes = Remotes
    /\ IsSome(head)
    /\ cfg.branch_remote[Unwrap(head)] = None
    /\ cfg.pushremote[Unwrap(head)] = Some("fork")
    /\ cfg.pushdefault = Some("origin")
    /\ Last.result = Ok("fork")

----------------------------------------------------------------------------
\* Properties of the start of hubsync() (Spec).

\* The local branches, when the run started, whose upstream is
\* "<default remote>/<the remote's advertised default branch>".
TrackingDefault ==
    {b \in local_branches(AtEntry.local) :
        /\ branch_upstream(AtEntry.cfg, b).ok
        /\ branch_upstream(AtEntry.cfg, b).val.remote = Unwrap(default_remote)
        /\ branch_upstream(AtEntry.cfg, b).val.name
              = AtEntry.cfg.advertised[Unwrap(default_remote)]}

\* The local branch n existed when the run started and has a remote.
HasRemote(n) ==
    /\ IsSome(AtEntry.local[n])
    /\ remote(AtEntry.cfg, Handle(n, Unwrap(AtEntry.local[n]))).ok

\* The run started with the local branch n as its candidate, found by name:
\* n's remote is the alternate remote and has been fetched.
FallbackOn(n) ==
    /\ AtEntry.odefault_branch = find_local(AtEntry.local, n)
    /\ alternate_remote
          = Some(remote(AtEntry.cfg, Handle(n, Unwrap(AtEntry.local[n]))).val)
    /\ trail.fetched = {Unwrap(default_remote), Unwrap(alternate_remote)}

\* The run started with the candidate od and no alternate remote.
NoFallback(od) ==
    /\ AtEntry.odefault_branch = od
    /\ alternate_remote = None
    /\ trail.fetched = {Unwrap(default_remote)}

\* C17: the candidate the loop starts with is a local branch whose upstream
\* is the default remote's advertised default branch when there is one;
\* otherwise "main" when it exists and has a remote, else "master" when it
\* exists and has a remote, the remote being fetched and kept as alternate
\* remote; otherwise there is no candidate and no alternate remote.
C17_CandidateResolution ==
    IsSome(trail.entry)
        => IF TrackingDefault # {}
           THEN \E b \in TrackingDefault : NoFallback(Some(b))
           ELSE IF HasRemote("main") THEN FallbackOn("main")
           ELSE IF HasRemote("master") THEN FallbackOn("master")
           ELSE NoFallback(None)

\* C17 witness: no local branch tracks the remote default, "main" exists but
\* has no remote, and "master" became the candidate.
C17_Witness ==
    /\ IsSome(trail.entry)
    /\ TrackingDefault = {}
    /\ IsSome(AtEntry.local["main"])
    /\ ~HasRemote("main")
    /\ HasRemote("master")
    /\ FallbackOn("master")

\* C17 witness of an alternate remote that is not the default remote.
C17_AlternateDiffers ==
    /\ IsSome(trail.entry)
    /\ TrackingDefault = {}
    /\ HasRemote("main")
    /\ FallbackOn("main")
    /\ alternate_remote # default_remote

----------------------------------------------------------------------------
\* Frame properties of the arms of the match (Spec).

\* This step classified a branch, and the action has one of the tags.
Executes(tags) ==
    /\ trail'.classified # trail.classified
    /\ Unwrap(action').result.val.tag \in tags

\* The branch this step classified.
Processed == Unwrap(action').branch.name

\* C18: the arms UpToDate, Unpushed, Unmerged and NoDefault change nothing:
\* every ref, the processed branch's included, HEAD, the working tree, the
\* configuration, current_branch and the candidate are as before, and the
\* loop goes on.
C18_WarningsChangeNothing ==
    [][Executes({"UpToDate", "Unpushed", "Unmerged", "NoDefault"})
          => /\ UNCHANGED << local, tracking, head, worktree, cfg,
                             current_branch, odefault_branch >>
             /\ local'[Processed] = Some(Unwrap(action').branch.tip)
             /\ pc' = "loop"]_vars

\* C18 witness: the checked-out branch was classified NoDefault and is
\* still there, checked out.
C18_Witness ==
    /\ pc = "loop"
    /\ IsSome(action)
    /\ Last.result = Ok(NoDefault)
    /\ local[Last.branch.name] = Some(Last.branch.tip)
    /\ head = Some(Last.branch.name)
    /\ worktree = Last.branch.tip

\* C19, UpdateRef: the processed branch's ref is at the upstream's tip and
\* no other ref has changed.
OnlyRefMoved ==
    Executes({"UpdateRef"})
        => local' = [local EXCEPT
                        ![Processed] = Some(Unwrap(action').result.val.upstream.tip)]

\* C19, Delete: the processed branch is gone and no other ref has changed.
OnlyBranchRemoved ==
    Executes({"Delete"}) => local' = [local EXCEPT ![Processed] = None]

\* C19, both arms: HEAD, the working tree and current_branch are as before,
\* nothing is checked out, and the loop goes on.
NoCheckout ==
    Executes({"UpdateRef", "Delete"})
        => /\ UNCHANGED << tracking, head, worktree, current_branch >>
           /\ trail'.checkouts = trail.checkouts
           /\ trail'.switched = trail.switched
           /\ pc' = "loop"

\* C19: UpdateRef moves only the processed branch's ref, Delete removes only
\* the processed branch, and neither touches HEAD, the working tree or
\* current_branch.
C19_RefOnlyArms == [][OnlyRefMoved /\ OnlyBranchRemoved /\ NoCheckout]_vars

\* C19 witness: a run that has moved one branch by UpdateRef and deleted
\* another by Delete, with HEAD and the working tree where they were.
C19_Witness ==
    /\ pc = "done"
    /\ trail.updated # {}
    /\ trail.deleted # {}
    /\ trail.checkouts = {}
    /\ head = AtEntry.head
    /\ worktree = AtEntry.worktree

----------------------------------------------------------------------------
\* Termination of a run (SpecFair).

\* hubsync() has returned, Ok(()) or an error.
Returned == pc \in {"done", "error"}

\* C20, as a state predicate: a branch is classified only in its own
\* iteration (it is visited or in the middle of its CheckoutAndDelete arm),
\* one CheckoutAndDelete arm at most is in progress, and a run that returns
\* Ok(()) has visited every enumerated branch and classified every one of
\* them that resolved to the default or the alternate remote.
VisitedOnce ==
    /\ visited \subseteq {b.name : b \in branches}
    /\ trail.classified \subseteq
          visited \cup {Unwrap(o).name : o \in {x \in {cad_branch} : IsSome(x)}}
    /\ pc = "cad" <=> IsSome(cad_branch)
    /\ pc = "done"
          => /\ visited = {b.name : b \in branches}
             /\ \A b \in branches :
                   (/\ remote(AtEntry.cfg, b).ok
                    /\ remote(AtEntry.cfg, b).val \in RunRemotes)
                       => b.name \in trail.classified

\* C20, as a step property: a step goes through exactly one branch that has
\* not been visited, or is the first half of a CheckoutAndDelete arm on such
\* a branch, and a step that classifies a branch classifies one that has
\* been neither classified nor visited before.
OneAtATime ==
    /\ pc = "loop"
          => \/ \E b \in branches :
                   /\ b.name \notin visited
                   /\ \/ visited' = visited \cup {b.name}
                      \/ pc' = "cad" /\ cad_branch' = Some(b) /\ visited' = visited
             \/ pc' = "done" /\ visited' = visited
    /\ pc = "cad" => visited' = visited \cup {Unwrap(cad_branch).name}
    /\ trail'.classified # trail.classified
          => /\ Processed \notin trail.classified
             /\ Processed \notin visited
             /\ trail'.classified = trail.classified \cup {Processed}

\* C20: every run returns, Ok(()) after every branch has been visited or an
\* error at the first failure, and no branch is visited or classified twice.
C20_Termination == <>Returned /\ []VisitedOnce /\ [][OneAtATime]_vars

\* C20 witness: a run over three branches has returned Ok(()) and has
\* classified two of them.
C20_Witness ==
    /\ pc = "done"
    /\ Cardinality(branches) = 3
    /\ Cardinality(visited) = 3
    /\ Cardinality(trail.classified) = 2

----------------------------------------------------------------------------
\* Properties of the checked-out branch and of the candidate (Spec).

\* The branch HEAD points to exists as a local branch.
HeadBranchExists == IsSome(head) => IsSome(local[Unwrap(head)])

\* The CheckoutAndDelete arm in progress has checked out another branch
\* than the one it is about to delete.
SwitchedAway ==
    pc = "cad" => head # Some(Unwrap(cad_branch).name)

\* C21: in every state of a run the branch HEAD points to exists as a local
\* branch, and CheckoutAndDelete checks out neither the branch it then
\* deletes nor a branch an earlier action of the run deleted.
C21_CheckedOutBranchExists == HeadBranchExists /\ SwitchedAway

\* C21 witness of the divergence: HEAD points to a branch that an earlier
\* Delete of the run removed.
C21_Witness ==
    /\ IsSome(head)
    /\ local[Unwrap(head)] = None
    /\ Unwrap(head) \in trail.deleted
    /\ trail.switched # {}

\* C21 witness of the second divergence: the arm has checked out the very
\* branch it is about to delete.
C21_SelfCheckout ==
    /\ pc = "cad"
    /\ head = Some(Unwrap(cad_branch).name)
    /\ Switched.name = Unwrap(cad_branch).name

\* C22: while a candidate is stored, the local branch it names exists.
C22_CandidateExists ==
    IsSome(odefault_branch) => IsSome(local[Unwrap(odefault_branch).name])

\* C22 witness of the divergence: the stored candidate, found by name in
\* the main/master fallback, has been deleted by a Delete of the run.
C22_Witness ==
    /\ IsSome(odefault_branch)
    /\ IsSome(alternate_remote)
    /\ local[Unwrap(odefault_branch).name] = None
    /\ Unwrap(odefault_branch).name \in trail.deleted
    /\ trail.switched = {}

\* C23, the name: current_branch names the branch HEAD points to.
CurrentIsHead ==
    IsSome(current_branch) => head = Some(Unwrap(current_branch).name)

\* C23, the working tree: during the loop and after it the working tree is
\* the tree of the tip of the branch HEAD points to.
WorktreeAtHeadTip ==
    IsSome(trail.entry)
        => /\ IsSome(head)
           /\ local[Unwrap(head)] = Some(worktree)

\* C23, as a step property: Merge is executed on the branch HEAD points to
\* and UpdateRef on another branch.
MergeOnlyOnHead ==
    /\ Executes({"Merge"}) => head = Some(Processed)
    /\ Executes({"UpdateRef"}) => head # Some(Processed)

\* C23: current_branch is the checked-out branch in every state of a run,
\* Merge and UpdateRef are executed accordingly, and the working tree is at
\* the tip of the checked-out branch after every action.
C23_CurrentBranchIsHead ==
    [](CurrentIsHead /\ WorktreeAtHeadTip) /\ [][MergeOnlyOnHead]_vars

\* C23 witness of the divergence: after a CheckoutAndDelete the working
\* tree holds the tree of a commit while the branch HEAD points to has no
\* tip: it was deleted earlier in the run.
C23_Witness ==
    /\ pc = "done"
    /\ trail.switched # {}
    /\ head = Some(Switched.name)
    /\ worktree = Switched.tip
    /\ local[Switched.name] = None

\* C24, as a step property: a CheckoutAndDelete is executed, and HEAD is
\* set to another branch, only when no CheckoutAndDelete has been executed
\* in the run before.
SingleSwitch ==
    /\ Executes({"CheckoutAndDelete"}) => trail.switched = {}
    /\ head' # head => trail.switched = {}

\* C24, as a step property: after the switch, a branch classified as
\* current, without a link and merged into the remote default branch is
\* classified NoDefault.
NoDefaultAfterSwitch ==
    (/\ trail.switched # {}
     /\ trail'.classified # trail.classified
     /\ ~Unwrap(action').link.ok
     /\ graph_descendant_of(Unwrap(action').rdb.tip, Unwrap(action').branch.tip)
     /\ Unwrap(action').branch.name = Unwrap(action').current.name)
        => Unwrap(action').result = Ok(NoDefault)

\* C24: at most one CheckoutAndDelete is executed in a run, HEAD is switched
\* at most once, and after it every current, link-less, merged branch is
\* classified NoDefault.
C24_AtMostOneCheckoutAndDelete ==
    [](Cardinality(trail.switched) <= 1)
        /\ [][SingleSwitch /\ NoDefaultAfterSwitch]_vars

\* C24 witness: after a CheckoutAndDelete the branch that was checked out,
\* itself without a link and merged, has been classified NoDefault and the
\* run is over.
C24_Witness ==
    /\ pc = "done"
    /\ trail.switched # {}
    /\ IsSome(action)
    /\ Last.branch.name = Switched.name
    /\ Last.result = Ok(NoDefault)
    /\ head = Some(Switched.name)
    /\ IsSome(local[Switched.name])

====
